---------------------------- MODULE Spec2Model ----------------------------
(***************************************************************************)
(* Model of tools/generate_markdown_from_xml.py: the command-line entry    *)
(* point and parse_adt_xml, the converter of an ADT discovery document     *)
(* (Atom Publishing Protocol service document) into markdown.              *)
(*                                                                         *)
(* The parsed document is the tree ElementTree hands to the converter,     *)
(* reduced to what the converter looks at:                                 *)
(*   root         a sequence of app:workspace elements (document order)    *)
(*   workspace    [title, collections]                                     *)
(*   collection   [title, href, templateLinks]                             *)
(*   templateLink [rel, template]                                          *)
(* An optional thing (the result of find(), of get(), the text of an       *)
(* element, a variable that may hold Python's None) is a sequence of       *)
(* length at most one: <<>> is None, <<v>> is the value v.                 *)
(*                                                                         *)
(* A file is the sequence of its newline-terminated lines, so the text     *)
(* "# ADT Endpoints\n\n" is << "# ADT Endpoints", "" >>.                   *)
(***************************************************************************)
EXTENDS Naturals, Sequences, FiniteSets

VARIABLES argv, pc, status, stdout, raised, xml_file, output_file, parsed,
          tree, fs, f, w, c, l, origin

vars == << argv, pc, status, stdout, raised, xml_file, output_file, parsed,
           tree, fs, f, w, c, l, origin >>

-----------------------------------------------------------------------------
(* Bounds of the model.                                                    *)

\* most command-line arguments after the program name
MaxArgs == 3
\* most app:workspace children of the root
MaxWs == 2
\* most app:collection children of one workspace
MaxColl == 2
\* most templateLink children of one templateLinks container
MaxLinks == 2
\* most workspace, collection and templateLink elements in one document
MaxNodes == 4

-----------------------------------------------------------------------------
(* Values.                                                                 *)

None == << >>

Some(v) == << v >>

\* The TLA+ lexer does not accept U+0060 inside a string; BQ stands for the
\* backquote that the converter writes around code-font values.
BQ == "'"

TitleTexts == { "A" }

Hrefs == { "/sap/bc/adt/repository" }

Rels == { "list" }

Templates == { "/search?query={query}" }

\* the i-th command-line argument
Arg(i) == IF i = 1 THEN "in.xml" ELSE IF i = 2 THEN "out.md" ELSE "extra"

Paths == { "in.xml", "out.md" }

Missing == [exists |-> FALSE, lines |-> << >>]

File(ls) == [exists |-> TRUE, lines |-> ls]

\* what stands in the output path before the run, when it exists
OldOutput == File(<< "old" >>)

\* the XML text itself is not modelled: what the parser makes of it is
\* chosen when the parser runs
XmlSource == File(<< "<?xml?>" >>)

Usage == "Usage: python generate_markdown_from_xml.py <input_xml_file> <output_markdown_file>"

-----------------------------------------------------------------------------
(* The elements of a document.                                             *)

\* an atom:title child: absent, present without text, present with text
TitleElements ==
    { None } \cup { Some([text |-> t]) : t \in { None } \cup { Some(s) : s \in TitleTexts } }

\* a templateLink element
TemplateLinkElements ==
    [ rel      : { None } \cup { Some(r) : r \in Rels },
      template : { None } \cup { Some(t) : t \in Templates } ]

\* a collection as the parser opens it: no templateLink read yet, the
\* templateLinks container absent or present
CollectionElements ==
    [ title         : TitleElements,
      href          : { None } \cup { Some(h) : h \in Hrefs },
      templateLinks : { None, Some(<< >>) } ]

\* a workspace as the parser opens it: no collection read yet
WorkspaceElements == [ title : TitleElements, collections : { << >> } ]

RECURSIVE SeqSum(_)
SeqSum(s) == IF s = << >> THEN 0 ELSE Head(s) + SeqSum(Tail(s))

CollectionSize(col) ==
    1 + (IF col.templateLinks = None THEN 0 ELSE Len(col.templateLinks[1]))

WorkspaceSize(ws) ==
    1 + SeqSum([i \in 1..Len(ws.collections) |-> CollectionSize(ws.collections[i])])

\* the number of workspace, collection and templateLink elements
DocumentSize(doc) == SeqSum([i \in 1..Len(doc) |-> WorkspaceSize(doc[i])])

-----------------------------------------------------------------------------
(* Formatting: what each f.write call puts into the file.                  *)

\* a variant that writes nothing for an absent value
Str_Empty(v) == IF v = None THEN "" ELSE v[1]

\* an f-string replacement field: str(None) is the text None
Str(v) == IF v = None THEN "None" ELSE v[1]

\* a variant that writes "# ADT Endpoints\n"
HeaderLines_NoBlank == << "# ADT Endpoints" >>

HeaderLines == << "# ADT Endpoints", "" >>

WorkspaceHeadingLines(workspace_title) == << "## " \o Str(workspace_title), "" >>

CollectionHeadingLines(collection_title) == << "### " \o Str(collection_title), "" >>

UrlLine(collection_href) == "- **URL**: " \o BQ \o Str(collection_href) \o BQ

OperationsLine == "- **Operations**:"

RelLine(rel) == "  - **" \o Str(rel) \o "**"

TemplateLine(template) ==
    "    - " \o BQ \o "template" \o BQ \o ": " \o BQ \o Str(template) \o BQ

BlankLine == ""

-----------------------------------------------------------------------------
(* The state.                                                              *)
(*   argv         sys.argv                                                 *)
(*   pc           the statement about to run                               *)
(*   status       the exit status of the process, None while it runs       *)
(*   stdout       the lines printed                                        *)
(*   raised       the exception that ended the run, if any                 *)
(*   xml_file, output_file   the parameters of parse_adt_xml, None before  *)
(*                the call                                                 *)
(*   parsed       the workspaces the parser has built so far               *)
(*   tree         the parsed root, None until ET.parse has returned        *)
(*   fs           the files, by path                                       *)
(*   f            the output stream: "none", "open" or "closed"            *)
(*   w, c, l      positions of the three nested for loops                  *)
(*   origin       for every line of the output file, the loop positions    *)
(*                and the f.write statement that wrote it (history)        *)
(***************************************************************************)

Init ==
    /\ \E n \in 0..MaxArgs :
          argv = << "generate_markdown_from_xml.py" >> \o [i \in 1..n |-> Arg(i)]
    /\ pc = "main"
    /\ status = None
    /\ stdout = << >>
    /\ raised = None
    /\ xml_file = None
    /\ output_file = None
    /\ parsed = << >>
    /\ tree = None
    /\ \E in \in { Missing, XmlSource }, out \in { Missing, OldOutput } :
          fs = [p \in Paths |-> IF p = "in.xml" THEN in ELSE out]
    /\ f = "none"
    /\ w = 0
    /\ c = 0
    /\ l = 0
    /\ origin = << >>

\* the element each loop variable is bound to
workspace == tree[1][w]

collection == workspace.collections[c]

\* a variant that walks the templateLink children last to first
template_link_Reversed ==
    collection.templateLinks[1][Len(collection.templateLinks[1]) + 1 - l]

template_link == collection.templateLinks[1][l]

\* a variant that also asks for text in the title element
HasTitle_WithText(element) == element.title # None /\ element.title[1].text # None

\* element.find(title) is not None
HasTitle(element) == element.title # None

\* a variant that also asks for a templateLink child
HasTemplateLinks_NonEmpty(col) == col.templateLinks # None /\ col.templateLinks[1] # << >>

\* collection.find(templateLinks) is not None
HasTemplateLinks(col) == col.templateLinks # None

\* a variant that only rejects too few arguments
WrongArgCount_TooFew == Len(argv) < 3

\* len(sys.argv) != 3
WrongArgCount == Len(argv) # 3

\* f.write of the given lines by the statement stmt
Write(lines, stmt) ==
    /\ fs' = [fs EXCEPT ![output_file[1]].lines = @ \o lines]
    /\ origin' = origin \o [i \in 1..Len(lines) |-> << w, c, l, stmt >>]

-----------------------------------------------------------------------------
(* The script body.                                                        *)

MainUsage ==
    /\ pc = "main"
    /\ WrongArgCount
    /\ stdout' = Append(stdout, Usage)
    /\ status' = Some(1)
    /\ pc' = "exited"
    /\ UNCHANGED << argv, raised, xml_file, output_file, parsed, tree, fs, f, w, c, l, origin >>

MainCall ==
    /\ pc = "main"
    /\ ~ WrongArgCount
    /\ xml_file' = Some(argv[2])
    /\ output_file' = Some(argv[3])
    /\ pc' = "parse"
    /\ UNCHANGED << argv, status, stdout, raised, parsed, tree, fs, f, w, c, l, origin >>

-----------------------------------------------------------------------------
(* parse_adt_xml.                                                          *)

\* ET.parse reads one more app:workspace element of the input
ParseWorkspace ==
    /\ pc = "parse"
    /\ fs[xml_file[1]].exists
    /\ Len(parsed) < MaxWs
    /\ DocumentSize(parsed) < MaxNodes
    /\ \E ws \in WorkspaceElements : parsed' = Append(parsed, ws)
    /\ UNCHANGED << argv, pc, status, stdout, raised, xml_file, output_file, tree, fs, f, w, c, l, origin >>

\* ET.parse reads one more app:collection element of the workspace it is in
ParseCollection ==
    /\ pc = "parse"
    /\ parsed # << >>
    /\ Len(parsed[Len(parsed)].collections) < MaxColl
    /\ DocumentSize(parsed) < MaxNodes
    /\ \E col \in CollectionElements :
          parsed' = [parsed EXCEPT ![Len(parsed)].collections = Append(@, col)]
    /\ UNCHANGED << argv, pc, status, stdout, raised, xml_file, output_file, tree, fs, f, w, c, l, origin >>

\* ET.parse reads one more templateLink element of the templateLinks
\* container of the collection it is in
ParseTemplateLink ==
    /\ pc = "parse"
    /\ parsed # << >>
    /\ parsed[Len(parsed)].collections # << >>
    /\ LET ws   == parsed[Len(parsed)]
           last == Len(ws.collections)
       IN  /\ ws.collections[last].templateLinks # None
           /\ Len(ws.collections[last].templateLinks[1]) < MaxLinks
           /\ DocumentSize(parsed) < MaxNodes
           /\ \E link \in TemplateLinkElements :
                 parsed' = [parsed EXCEPT ![Len(parsed)].collections[last].templateLinks[1] =
                                             Append(@, link)]
    /\ UNCHANGED << argv, pc, status, stdout, raised, xml_file, output_file, tree, fs, f, w, c, l, origin >>

\* ET.parse returns: the input was readable and well formed
ParseOk ==
    /\ pc = "parse"
    /\ fs[xml_file[1]].exists
    /\ tree' = Some(parsed)
    /\ parsed' = << >>
    /\ pc' = "open"
    /\ UNCHANGED << argv, status, stdout, raised, xml_file, output_file, fs, f, w, c, l, origin >>

\* a variant in which the output path was opened before the parser ran
ParseFail_OutputOpened ==
    /\ pc = "parse"
    /\ raised' = Some(IF fs[xml_file[1]].exists THEN "ParseError" ELSE "FileNotFoundError")
    /\ status' = Some(1)
    /\ pc' = "exited"
    /\ parsed' = << >>
    /\ fs' = [fs EXCEPT ![output_file[1]] = File(<< >>)]
    /\ UNCHANGED << argv, stdout, xml_file, output_file, tree, f, w, c, l, origin >>

\* ET.parse raises: the input is missing, or is not well-formed XML; nothing
\* catches the exception and the interpreter exits with status 1
ParseFail ==
    /\ pc = "parse"
    /\ raised' = Some(IF fs[xml_file[1]].exists THEN "ParseError" ELSE "FileNotFoundError")
    /\ status' = Some(1)
    /\ pc' = "exited"
    /\ parsed' = << >>
    /\ UNCHANGED << argv, stdout, xml_file, output_file, tree, fs, f, w, c, l, origin >>

\* open(output_file, 'w') creates the file or truncates it
Open ==
    /\ pc = "open"
    /\ fs' = [fs EXCEPT ![output_file[1]] = File(<< >>)]
    /\ f' = "open"
    /\ pc' = "header"
    /\ UNCHANGED << argv, status, stdout, raised, xml_file, output_file, parsed, tree, w, c, l, origin >>

\* open raises (the path is not writable)
OpenFail ==
    /\ pc = "open"
    /\ raised' = Some("OSError")
    /\ status' = Some(1)
    /\ pc' = "exited"
    /\ UNCHANGED << argv, stdout, xml_file, output_file, parsed, tree, fs, f, w, c, l, origin >>

WriteHeader ==
    /\ pc = "header"
    /\ Write(HeaderLines, "header")
    /\ w' = 1
    /\ pc' = "workspace"
    /\ UNCHANGED << argv, status, stdout, raised, xml_file, output_file, parsed, tree, f, c, l >>

\* the workspace has a title element: its heading is written and its
\* collections are walked
WriteWorkspaceHeading ==
    /\ pc = "workspace"
    /\ w <= Len(tree[1])
    /\ HasTitle(workspace)
    /\ Write(WorkspaceHeadingLines(workspace.title[1].text), "h2")
    /\ c' = 1
    /\ pc' = "collection"
    /\ UNCHANGED << argv, status, stdout, raised, xml_file, output_file, parsed, tree, f, w, l >>

\* a variant in which the collection loop is not inside the if
WorkspaceSkip_FallThrough ==
    /\ pc = "workspace"
    /\ w <= Len(tree[1])
    /\ ~ HasTitle(workspace)
    /\ c' = 1
    /\ pc' = "collection"
    /\ UNCHANGED << argv, status, stdout, raised, xml_file, output_file, parsed, tree, fs, f, w, l, origin >>

\* the workspace has no title element: the whole body of the if is skipped
WorkspaceSkip ==
    /\ pc = "workspace"
    /\ w <= Len(tree[1])
    /\ ~ HasTitle(workspace)
    /\ w' = w + 1
    /\ UNCHANGED << argv, pc, status, stdout, raised, xml_file, output_file, parsed, tree, fs, f, c, l, origin >>

\* the workspace loop is exhausted: the with block closes the stream, the
\* function returns and the script ends
WorkspacesDone ==
    /\ pc = "workspace"
    /\ w > Len(tree[1])
    /\ f' = "closed"
    /\ status' = Some(0)
    /\ pc' = "exited"
    /\ UNCHANGED << argv, stdout, raised, xml_file, output_file, parsed, tree, fs, w, c, l, origin >>

WriteCollectionHeading ==
    /\ pc = "collection"
    /\ c <= Len(workspace.collections)
    /\ HasTitle(collection)
    /\ Write(CollectionHeadingLines(collection.title[1].text), "h3")
    /\ pc' = "url"
    /\ UNCHANGED << argv, status, stdout, raised, xml_file, output_file, parsed, tree, f, w, c, l >>

\* a variant in which only the heading is inside the if
CollectionSkip_FallThrough ==
    /\ pc = "collection"
    /\ c <= Len(workspace.collections)
    /\ ~ HasTitle(collection)
    /\ pc' = "url"
    /\ UNCHANGED << argv, status, stdout, raised, xml_file, output_file, parsed, tree, fs, f, w, c, l, origin >>

\* the collection has no title element: the whole body of the if is skipped
CollectionSkip ==
    /\ pc = "collection"
    /\ c <= Len(workspace.collections)
    /\ ~ HasTitle(collection)
    /\ c' = c + 1
    /\ UNCHANGED << argv, pc, status, stdout, raised, xml_file, output_file, parsed, tree, fs, f, w, l, origin >>

CollectionsDone ==
    /\ pc = "collection"
    /\ c > Len(workspace.collections)
    /\ w' = w + 1
    /\ c' = 0
    /\ pc' = "workspace"
    /\ UNCHANGED << argv, status, stdout, raised, xml_file, output_file, parsed, tree, fs, f, l, origin >>

WriteUrl ==
    /\ pc = "url"
    /\ Write(<< UrlLine(collection.href) >>, "url")
    /\ pc' = IF HasTemplateLinks(collection) THEN "operations" ELSE "blank"
    /\ UNCHANGED << argv, status, stdout, raised, xml_file, output_file, parsed, tree, f, w, c, l >>

WriteOperations ==
    /\ pc = "operations"
    /\ Write(<< OperationsLine >>, "operations")
    /\ l' = 1
    /\ pc' = "link"
    /\ UNCHANGED << argv, status, stdout, raised, xml_file, output_file, parsed, tree, f, w, c >>

WriteRel ==
    /\ pc = "link"
    /\ l <= Len(collection.templateLinks[1])
    /\ Write(<< RelLine(template_link.rel) >>, "rel")
    /\ pc' = "template"
    /\ UNCHANGED << argv, status, stdout, raised, xml_file, output_file, parsed, tree, f, w, c, l >>

WriteTemplate ==
    /\ pc = "template"
    /\ Write(<< TemplateLine(template_link.template) >>, "template")
    /\ l' = l + 1
    /\ pc' = "link"
    /\ UNCHANGED << argv, status, stdout, raised, xml_file, output_file, parsed, tree, f, w, c >>

LinksDone ==
    /\ pc = "link"
    /\ l > Len(collection.templateLinks[1])
    /\ l' = 0
    /\ pc' = "blank"
    /\ UNCHANGED << argv, status, stdout, raised, xml_file, output_file, parsed, tree, fs, f, w, c, origin >>

WriteBlank ==
    /\ pc = "blank"
    /\ Write(<< BlankLine >>, "blank")
    /\ c' = c + 1
    /\ pc' = "collection"
    /\ UNCHANGED << argv, status, stdout, raised, xml_file, output_file, parsed, tree, f, w, l >>

Next ==
    \/ MainUsage
    \/ MainCall
    \/ ParseWorkspace
    \/ ParseCollection
    \/ ParseTemplateLink
    \/ ParseOk
    \/ ParseFail
    \/ Open
    \/ OpenFail
    \/ WriteHeader
    \/ WriteWorkspaceHeading
    \/ WorkspaceSkip
    \/ WorkspacesDone
    \/ WriteCollectionHeading
    \/ CollectionSkip
    \/ CollectionsDone
    \/ WriteUrl
    \/ WriteOperations
    \/ WriteRel
    \/ WriteTemplate
    \/ LinksDone
    \/ WriteBlank

Spec == Init /\ [][Next]_vars

-----------------------------------------------------------------------------
(* Vocabulary of the properties.                                           *)

\* the run returned from parse_adt_xml and the script ended normally
Succeeded == pc = "exited" /\ status = Some(0)

\* the parsed root, once there is one
Doc == tree[1]

\* the lines this run has written to the output path
OutLines == IF f = "none" THEN << >> ELSE fs[output_file[1]].lines

\* the lines written by statement stmt at loop positions wi, ci, li
LinesAt(wi, ci, li, stmt) ==
    { i \in 1..Len(origin) : origin[i] = << wi, ci, li, stmt >> }

\* the lines written while the workspace loop stood at wi (and the
\* collection loop at ci)
LinesOfWorkspace(wi) == { i \in 1..Len(origin) : origin[i][1] = wi }

LinesOfCollection(wi, ci) ==
    { i \in 1..Len(origin) : origin[i][1] = wi /\ origin[i][2] = ci }

HeadingTexts == TitleTexts \cup { "None" }

IsH2(line) == \E t \in HeadingTexts : line = "## " \o t

IsH3(line) == \E t \in HeadingTexts : line = "### " \o t

TitleAbsent(element) == element.title = None

TitleNonEmpty(element) == element.title # None /\ element.title[1].text # None

\* the collections the converter reaches: those with a title element inside
\* a workspace with a title element
Rendered(wi, ci) == ~ TitleAbsent(Doc[wi]) /\ ~ TitleAbsent(Doc[wi].collections[ci])

\* the collections of the document, by workspace and collection index
Positions ==
    UNION { { << wi, ci >> : ci \in 1..Len(Doc[wi].collections) } : wi \in 1..Len(Doc) }

UrlAndBlankWritten(wi, ci) ==
    /\ Cardinality({ i \in LinesAt(wi, ci, 0, "url") :
                       OutLines[i] = UrlLine(Doc[wi].collections[ci].href) }) = 1
    /\ Cardinality({ i \in LinesOfCollection(wi, ci) :
                       \E h \in Hrefs \cup { "None" } :
                          OutLines[i] = "- **URL**: " \o BQ \o h \o BQ }) = 1
    /\ Cardinality({ i \in LinesAt(wi, ci, 0, "blank") : OutLines[i] = "" }) = 1
    /\ \A i \in LinesOfCollection(wi, ci) :
          \A j \in LinesOfCollection(wi, ci) :
             origin[i][4] = "blank" => j <= i

-----------------------------------------------------------------------------
-----------------------------------------------------------------------------
-----------------------------------------------------------------------------
\* a rendered collection whose templateLinks container is present and empty
EmptyContainer(wi, ci) ==
    Rendered(wi, ci) /\ Doc[wi].collections[ci].templateLinks = Some(<< >>)

OperationsLinesOf(wi, ci) ==
    { i \in LinesOfCollection(wi, ci) : OutLines[i] = "- **Operations**:" }

(* C3 as stated: a rendered collection whose templateLinks container has   *)
(* no templateLink child gets no Operations bullet, and still its URL      *)
(* bullet and trailing blank line.  The converter writes the bullet.       *)
C3_EmptyContainerNoOperations ==
    Succeeded =>
        \A p \in Positions :
            EmptyContainer(p[1], p[2]) =>
                /\ OperationsLinesOf(p[1], p[2]) = { }
                /\ UrlAndBlankWritten(p[1], p[2])

(* C3 amended: such a collection gets exactly one Operations bullet, with  *)
(* no entry under it (the trailing blank line is the next line), and       *)
(* still its URL bullet and trailing blank line.                           *)
C3_EmptyContainerBareOperations ==
    Succeeded =>
        \A p \in Positions :
            EmptyContainer(p[1], p[2]) =>
                /\ Cardinality(OperationsLinesOf(p[1], p[2])) = 1
                /\ \A i \in OperationsLinesOf(p[1], p[2]) :
                      /\ i - 1 \in LinesAt(p[1], p[2], 0, "url")
                      /\ i + 1 \in LinesAt(p[1], p[2], 0, "blank")
                /\ UrlAndBlankWritten(p[1], p[2])

C3_Witness ==
    /\ Succeeded
    /\ \E p \in Positions : EmptyContainer(p[1], p[2])

-----------------------------------------------------------------------------
H3Count == Cardinality({ i \in 1..Len(OutLines) : IsH3(OutLines[i]) })

-----------------------------------------------------------------------------
(* C5: a heading line is written only for a title element that is present  *)
(* and has non-empty text; no heading reads None.  The converter writes    *)
(* the heading for a title element without text, as "## None" or           *)
(* "### None".                                                              *)
C5_HeadingOnlyForNonEmptyTitle ==
    \A i \in 1..Len(OutLines) :
        /\ OutLines[i] \notin { "## None", "### None" }
        /\ IsH2(OutLines[i]) => TitleNonEmpty(Doc[origin[i][1]])
        /\ IsH3(OutLines[i]) => TitleNonEmpty(Doc[origin[i][1]].collections[origin[i][2]])

-----------------------------------------------------------------------------
\* the place of a written line in the document: workspace, collection, then
\* the head of the collection block (0), its templateLink entries (1) or its
\* trailing blank line (2), then the templateLink, then the statement
StmtRank(stmt) ==
    CASE stmt = "header"     -> 0
      [] stmt = "h2"         -> 1
      [] stmt = "h3"         -> 2
      [] stmt = "url"        -> 3
      [] stmt = "operations" -> 4
      [] stmt = "rel"        -> 5
      [] stmt = "template"   -> 6
      [] stmt = "blank"      -> 7

Part(stmt) == IF stmt \in { "rel", "template" } THEN 1 ELSE IF stmt = "blank" THEN 2 ELSE 0

\* more than any loop position
Radix == MaxWs + MaxColl + MaxLinks + 2

\* the place as one number: a line of a later place has a larger number
Key(o) == (((o[1] * Radix + o[2]) * 3 + Part(o[4])) * Radix + o[3]) * 8 + StmtRank(o[4])

\* the text the document prescribes for the line written at origin o
TextAt(o, line) ==
    CASE o[4] = "header"     -> line \in { "# ADT Endpoints", "" }
      [] o[4] = "h2"         -> line \in { "## " \o Str(Doc[o[1]].title[1].text), "" }
      [] o[4] = "h3"         ->
           line \in { "### " \o Str(Doc[o[1]].collections[o[2]].title[1].text), "" }
      [] o[4] = "url"        ->
           line = "- **URL**: " \o BQ \o Str(Doc[o[1]].collections[o[2]].href) \o BQ
      [] o[4] = "operations" -> line = "- **Operations**:"
      [] o[4] = "rel"        ->
           line = "  - **" \o
                  Str(Doc[o[1]].collections[o[2]].templateLinks[1][o[3]].rel) \o "**"
      [] o[4] = "template"   ->
           line = "    - " \o BQ \o "template" \o BQ \o ": " \o BQ \o
                  Str(Doc[o[1]].collections[o[2]].templateLinks[1][o[3]].template) \o BQ
      [] o[4] = "blank"      -> line = ""

\* every element the converter renders has its own lines
AllRendered ==
    /\ \A wi \in 1..Len(Doc) :
          ~ TitleAbsent(Doc[wi]) => Cardinality(LinesAt(wi, 0, 0, "h2")) = 2
    /\ \A p \in Positions :
          Rendered(p[1], p[2]) =>
             /\ Cardinality(LinesAt(p[1], p[2], 0, "h3")) = 2
             /\ Cardinality(LinesAt(p[1], p[2], 0, "url")) = 1
             /\ Doc[p[1]].collections[p[2]].templateLinks # None =>
                   \A li \in 1..Len(Doc[p[1]].collections[p[2]].templateLinks[1]) :
                      /\ Cardinality(LinesAt(p[1], p[2], li, "rel")) = 1
                      /\ Cardinality(LinesAt(p[1], p[2], li, "template")) = 1

(* C6: the writes mirror document order.  No step changes or removes a     *)
(* line already written; every line a step writes is the text of the       *)
(* element the loop positions name, and comes from a later place of the    *)
(* document than the line before it (only the two lines of one heading     *)
(* share a place); and when the run ends, every workspace that has a title *)
(* element, every collection with a title element in it and every          *)
(* templateLink of such a collection has its own lines, also when titles,  *)
(* hrefs or links repeat.                                                  *)
C6_WritesMirrorDocumentOrder ==
    [][ /\ f = "open" =>
              /\ Len(OutLines') >= Len(OutLines)
              /\ SubSeq(OutLines', 1, Len(OutLines)) = OutLines
              /\ \A i \in (Len(OutLines) + 1)..Len(OutLines') :
                    /\ TextAt(origin'[i], OutLines'[i])
                    /\ i > 1 =>
                          \/ Key(origin'[i - 1]) < Key(origin'[i])
                          \/ /\ origin'[i - 1] = origin'[i]
                             /\ origin'[i][4] \in { "header", "h2", "h3" }
                             /\ OutLines'[i - 1] # ""
                             /\ OutLines'[i] = ""
        /\ f # "open" => OutLines' = << >>
        /\ Succeeded' => AllRendered'
      ]_vars

\* two workspaces with the same title have been written, the first with a
\* collection and a templateLink of it, all before the heading of the second
C6_Witness ==
    /\ Succeeded
    /\ Len(Doc) = 2
    /\ ~ TitleAbsent(Doc[1])
    /\ Doc[1].title = Doc[2].title
    /\ Len(Doc[1].collections) = 1
    /\ Rendered(1, 1)
    /\ Doc[1].collections[1].templateLinks # None
    /\ Len(Doc[1].collections[1].templateLinks[1]) = 1
    /\ \A i \in LinesOfWorkspace(1) : \A j \in LinesOfWorkspace(2) : i < j
    /\ LinesOfWorkspace(2) # { }

-----------------------------------------------------------------------------
(* C7: whenever the run has written anything, the first two lines are the  *)
(* fixed header and a blank line; a successful run has written them; and   *)
(* for a document without workspaces the output file is exactly            *)
(* "# ADT Endpoints\n\n".                                                  *)
C7_HeaderFirstAndAloneWithoutWorkspaces ==
    /\ OutLines # << >> =>
          /\ Len(OutLines) >= 2
          /\ OutLines[1] = "# ADT Endpoints"
          /\ OutLines[2] = ""
    /\ Succeeded => OutLines # << >>
    /\ Succeeded /\ Doc = << >> =>
          fs[output_file[1]] = [exists |-> TRUE, lines |-> << "# ADT Endpoints", "" >>]

C7_Witness == Succeeded /\ Doc = << >> /\ Len(OutLines) = 2

-----------------------------------------------------------------------------
Quoted(text) == BQ \o text \o BQ

(* C8: an absent attribute is written as the text None and its line is not *)
(* suppressed; a present attribute is written verbatim.  This holds for    *)
(* the href of every rendered collection and for the rel and the template  *)
(* of every templateLink of a rendered collection.                         *)
C8_AbsentAttributeIsNone ==
    Succeeded =>
        \A p \in Positions :
            Rendered(p[1], p[2]) =>
                LET col == Doc[p[1]].collections[p[2]]
                IN  /\ \E i \in LinesAt(p[1], p[2], 0, "url") :
                          OutLines[i] =
                             IF col.href = None
                             THEN "- **URL**: " \o Quoted("None")
                             ELSE "- **URL**: " \o Quoted(col.href[1])
                    /\ col.templateLinks # None =>
                          \A li \in 1..Len(col.templateLinks[1]) :
                             LET link == col.templateLinks[1][li]
                             IN  /\ \E i \in LinesAt(p[1], p[2], li, "rel") :
                                       OutLines[i] =
                                          IF link.rel = None
                                          THEN "  - **None**"
                                          ELSE "  - **" \o link.rel[1] \o "**"
                                 /\ \E i \in LinesAt(p[1], p[2], li, "template") :
                                       OutLines[i] =
                                          IF link.template = None
                                          THEN "    - " \o Quoted("template") \o ": " \o
                                               Quoted("None")
                                          ELSE "    - " \o Quoted("template") \o ": " \o
                                               Quoted(link.template[1])

C8_Witness ==
    /\ Succeeded
    /\ \E p \in Positions :
          /\ Rendered(p[1], p[2])
          /\ Doc[p[1]].collections[p[2]].href = None
          /\ Doc[p[1]].collections[p[2]].templateLinks # None
          /\ \E li, lj \in 1..Len(Doc[p[1]].collections[p[2]].templateLinks[1]) :
                /\ Doc[p[1]].collections[p[2]].templateLinks[1][li].rel = None
                /\ Doc[p[1]].collections[p[2]].templateLinks[1][lj].template = None

-----------------------------------------------------------------------------
(* C9: with any number of arguments other than two, the only step is the   *)
(* one that prints the usage message and exits with status 1; no file is   *)
(* touched, the output is never opened and the converter is never entered. *)
(* With exactly two arguments the converter is entered once, with the      *)
(* first argument as input and the second as output.                       *)
C9_UsageOrSingleCall ==
    [][ /\ Len(argv) # 3 =>
              /\ pc = "main"
              /\ pc' = "exited"
              /\ stdout' = << Usage >>
              /\ status' = Some(1)
              /\ fs' = fs
              /\ f' = "none"
              /\ tree' = None
              /\ xml_file' = None
              /\ output_file' = None
        /\ Len(argv) = 3 =>
              /\ stdout' = << >>
              /\ pc = "main" =>
                    /\ pc' = "parse"
                    /\ xml_file' = Some(argv[2])
                    /\ output_file' = Some(argv[3])
                    /\ fs' = fs
              /\ pc # "main" =>
                    /\ pc' # "main"
                    /\ pc # "parse" => pc' # "parse"
                    /\ xml_file' = xml_file
                    /\ output_file' = output_file
      ]_vars

C9_Witness ==
    /\ Len(argv) = 4
    /\ pc = "exited"
    /\ status = Some(1)
    /\ stdout = << Usage >>
    /\ fs["out.md"] = OldOutput

-----------------------------------------------------------------------------
(* C10: as long as the parser has not returned a tree, and so in every run *)
(* in which parsing fails, no step opens the output path or changes any    *)
(* file: an existing output file keeps its content and a missing one is    *)
(* not created.                                                            *)
C10_ParseBeforeOpen ==
    [][ tree' = None => fs' = fs /\ f' = "none" /\ f = "none" ]_vars

C10_Witness ==
    /\ pc = "exited"
    /\ raised = Some("ParseError")
    /\ tree = None
    /\ fs["out.md"] = OldOutput

=============================================================================
